---- MODULE Spec2Model ----
(***************************************************************************)
(* Model of xmlify.py: decoding a House document (an element tree) into    *)
(* the domain objects (NameSpec, ConditionSpec, State, Item, Room,         *)
(* SpecialResponse, House) and encoding them back to an element tree.      *)
(*                                                                         *)
(* Python strings are sequences of one-character strings, so that int(),  *)
(* str() and the "' ' in name" tests are computed and not assumed.        *)
(* Optional values are None == << >> or Some(v) == << v >>.                *)
(* A call returns Ok(v) or Raise(e), e naming the exception.               *)
(***************************************************************************)
EXTENDS Integers, Sequences, FiniteSets, TLC

VARIABLES use_tag_name, kind, pc, src, dec, enc, redec

vars == << use_tag_name, kind, pc, src, dec, enc, redec >>

----------------------------------------------------------------------------
(* Python values *)

None == << >>
Some(v) == << v >>
IsNone(o) == Len(o) = 0
IsSome(o) == Len(o) = 1
Get(o) == o[1]

Ok(v) == [ok |-> TRUE, val |-> v]
Raise(e) == [ok |-> FALSE, err |-> e]

\* the exceptions of the program, by what raises them
InvalidLiteral == "ValueError: invalid literal for int()"
MissingIdentity == "ValueError: is missing a name AND id"
AmbiguousConditions == "ValueError: prereqs and actions both exist"
MissingConditions == "ValueError: both prereqs and actions are missing"
NoneNotContainer == "TypeError: argument of type 'NoneType' is not iterable"
NoneNotIterable == "TypeError: 'NoneType' object is not iterable"
NotAString == "TypeError: Argument must be bytes or unicode, got 'NameSpec'"
BadArgument == "TypeError: bad argument type: NoneType"
BadAttribute == "KeyError: NoneType"
InvalidTagName == "ValueError: Invalid tag name"

\* r, and then F of its value unless r raised
Bind(r, F(_)) == IF r.ok THEN F(r.val) ELSE r

\* [f(x) for x in xs] where f may raise: the list, or the first error
Collect(rs) ==
    IF \A i \in DOMAIN rs : rs[i].ok THEN Ok([i \in DOMAIN rs |-> rs[i].val])
    ELSE rs[CHOOSE i \in DOMAIN rs : ~rs[i].ok /\ \A j \in 1..(i - 1) : rs[j].ok]

----------------------------------------------------------------------------
(* str and int *)

Digits == <<"0", "1", "2", "3", "4", "5", "6", "7", "8", "9">>
IsDigit(c) == \E i \in 1..10 : Digits[i] = c
DigitVal(c) == (CHOOSE i \in 1..10 : Digits[i] = c) - 1
IsSpace(c) == c \in {" ", "\t", "\n", "\r"}

RECURSIVE LStrip(_)
LStrip(s) == IF s # << >> /\ IsSpace(Head(s)) THEN LStrip(Tail(s)) ELSE s

RECURSIVE RStrip(_)
RStrip(s) ==
    IF s # << >> /\ IsSpace(s[Len(s)]) THEN RStrip(SubSeq(s, 1, Len(s) - 1)) ELSE s

Strip(s) == RStrip(LStrip(s))

Unsigned(s) == IF s # << >> /\ Head(s) \in {"+", "-"} THEN Tail(s) ELSE s

\* digits, single underscores allowed between two digits
DigitsValid(d) ==
    /\ d # << >>
    /\ \A i \in 1..Len(d) :
         \/ IsDigit(d[i])
         \/ d[i] = "_" /\ i > 1 /\ i < Len(d) /\ IsDigit(d[i - 1]) /\ IsDigit(d[i + 1])

RECURSIVE DigitsValue(_, _)
DigitsValue(d, acc) ==
    IF d = << >> THEN acc
    ELSE IF Head(d) = "_" THEN DigitsValue(Tail(d), acc)
    ELSE DigitsValue(Tail(d), 10 * acc + DigitVal(Head(d)))

\* int(s) for a str s: does s parse, and to what
IsIntLiteral(s) == DigitsValid(Unsigned(Strip(s)))
Signed(t, v) == IF Head(t) = "-" THEN 0 - v ELSE v
IntValue(s) == Signed(Strip(s), DigitsValue(Unsigned(Strip(s)), 0))

\* int(x) for an Optional[str] x
PyInt(x) ==
    IF IsNone(x) THEN Raise("TypeError")
    ELSE IF IsIntLiteral(Get(x)) THEN Ok(IntValue(Get(x)))
    ELSE Raise(InvalidLiteral)

RECURSIVE NatStr(_)
NatStr(n) == IF n < 10 THEN << Digits[n + 1] >> ELSE NatStr(n \div 10) \o << Digits[(n % 10) + 1] >>

\* str(n) for an int n
PyStr(n) == IF n < 0 THEN << "-" >> \o NatStr(0 - n) ELSE NatStr(n)

\* ' ' in s
HasBlank(s) == \E i \in 1..Len(s) : s[i] = " "

----------------------------------------------------------------------------
(* the literal strings of the program *)

S_name == <<"n", "a", "m", "e">>
S_id == <<"i", "d">>
S_index == <<"i", "n", "d", "e", "x">>
S_image == <<"i", "m", "a", "g", "e">>
S_description == <<"d", "e", "s", "c", "r", "i", "p", "t", "i", "o", "n">>
S_prerequisites == <<"p", "r", "e", "r", "e", "q", "u", "i", "s", "i", "t", "e", "s">>
S_actions == <<"a", "c", "t", "i", "o", "n", "s">>
S_conditions == <<"c", "o", "n", "d", "i", "t", "i", "o", "n", "s">>
S_prereq == <<"p", "r", "e", "r", "e", "q">>
S_get == <<"g", "e", "t">>
S_gettable == <<"g", "e", "t", "t", "a", "b", "l", "e">>
S_state == <<"s", "t", "a", "t", "e">>
S_states == <<"s", "t", "a", "t", "e", "s">>
S_itemstate == <<"i", "t", "e", "m", "s", "t", "a", "t", "e">>
S_item == <<"i", "t", "e", "m">>
S_items == <<"i", "t", "e", "m", "s">>
S_itemindex == <<"i", "t", "e", "m", "i", "n", "d", "e", "x">>
S_room == <<"r", "o", "o", "m">>
S_rooms == <<"r", "o", "o", "m", "s">>
S_adjacentrooms == <<"a", "d", "j", "a", "c", "e", "n", "t", "r", "o", "o", "m", "s">>
S_command == <<"c", "o", "m", "m", "a", "n", "d">>
S_reponse == <<"r", "e", "p", "o", "n", "s", "e">>
S_response == <<"r", "e", "s", "p", "o", "n", "s", "e">>
S_specialresponse == <<"s", "p", "e", "c", "i", "a", "l">> \o S_response
S_specialresponses == S_specialresponse \o <<"s">>
S_house == <<"h", "o", "u", "s", "e">>
S_True == <<"T", "r", "u", "e">>
S_False == <<"F", "a", "l", "s", "e">>

\* the class names
NameSpec == <<"N", "a", "m", "e", "S", "p", "e", "c">>
ItemSpec == <<"I", "t", "e", "m", "S", "p", "e", "c">>
StateSpec == <<"S", "t", "a", "t", "e", "S", "p", "e", "c">>
RoomSpec == <<"R", "o", "o", "m", "S", "p", "e", "c">>

Lower(c) ==
    CASE c = "N" -> "n" [] c = "I" -> "i" [] c = "S" -> "s" [] c = "R" -> "r" [] OTHER -> c

\* cls.__name__[:-4].lower()
typename(cls) == [i \in 1..(Len(cls) - 4) |-> Lower(cls[i])]

----------------------------------------------------------------------------
(* elements: etree._Element as the program uses it *)

NoAttrs == {}

Element(tag, attrib, text, children) ==
    [tag |-> tag, attrib |-> attrib, text |-> text, children |-> children]

\* {k1: v1} as a set of pairs, read by key
Attr(k, v) == {<< k, v >>}
HasAttr(x, k) == \E p \in x.attrib : p[1] = k
AttrOf(x, k) == (CHOOSE p \in x.attrib : p[1] = k)[2]
\* x.set(k, v), x.attrib.update
SetAttr(attrib, k, v) == {p \in attrib : p[1] # k} \cup {<< k, v >>}

\* elt.get(name)
XGet(x, name) == IF HasAttr(x, name) THEN Some(AttrOf(x, name)) ELSE None

\* elt.find(name): the first child of that tag
HasChild(x, name) == \E i \in DOMAIN x.children : x.children[i].tag = name
Find(x, name) ==
    x.children[CHOOSE i \in DOMAIN x.children :
        /\ x.children[i].tag = name
        /\ \A j \in 1..(i - 1) : x.children[j].tag # name]

\* the text of a found element, '' when it has none
TextOrEmpty(e) == IF IsNone(e.text) THEN Some(<< >>) ELSE e.text

\* elt.findtext(name): None without such a child
FindText(x, name) == IF HasChild(x, name) THEN TextOrEmpty(Find(x, name)) ELSE None

\* for x in elt.find(name), which raises when there is no such child
IterFind(x, name) == IF HasChild(x, name) THEN Ok(Find(x, name).children) ELSE Raise(NoneNotIterable)

----------------------------------------------------------------------------
(* lookups *)

attr_lookup(name) == [via |-> "attr", name |-> name]
elt_lookup(name) == [via |-> "elt", name |-> name]
self_lookup == [via |-> "self", name |-> << >>]
attr_elt(name) == << attr_lookup(name), elt_lookup(name) >>

\* lookup(elt)
Apply(lookup, elt) ==
    CASE lookup.via = "attr" -> XGet(elt, lookup.name)
      [] lookup.via = "elt" -> FindText(elt, lookup.name)
      [] lookup.via = "self" -> elt.text

\* the candidates of a chain, in order
Candidates(elt, lookups) == [i \in DOMAIN lookups |-> Apply(lookups[i], elt)]

FirstSome(x, rest) == IF IsSome(x) THEN x ELSE rest

RECURSIVE do_lookup(_, _)
do_lookup(elt, lookups) ==
    IF lookups = << >> THEN None
    ELSE FirstSome(Apply(Head(lookups), elt), do_lookup(elt, Tail(lookups)))

\* one turn of the loop of do_int_lookup on r = int(lookup(elt)): only
\* TypeError is caught
IntOrNext(r, rest) ==
    IF r.ok THEN Ok(Some(r.val))
    ELSE IF r.err = "TypeError" THEN rest
    ELSE r

\* Ok(Some(n)), Ok(None) or the error of int()
RECURSIVE do_int_lookup(_, _)
do_int_lookup(elt, lookups) ==
    IF lookups = << >> THEN Ok(None)
    ELSE IntOrNext(PyInt(Apply(Head(lookups), elt)), do_int_lookup(elt, Tail(lookups)))

----------------------------------------------------------------------------
(* NameSpec and its subclasses *)

Identity(cls, id, name) == [cls |-> cls, id |-> id, name |-> name]

\* cls._namesearch()
namesearch_of(cls) ==
    IF cls = NameSpec THEN << attr_lookup(S_name), elt_lookup(S_name) >>
    ELSE << attr_lookup(typename(cls)), elt_lookup(typename(cls)) >>

\* cls._idsearch()
idsearch_of(cls) ==
    IF cls = NameSpec
    THEN << attr_lookup(S_id), elt_lookup(S_id), attr_lookup(S_index), elt_lookup(S_index) >>
    ELSE IF cls = RoomSpec THEN << self_lookup >>
    ELSE << attr_lookup(typename(cls)), elt_lookup(typename(cls)) >>

\* x or default, for an optional list x
OrElse(x, default) == IF IsNone(x) \/ x = Some(<< >>) THEN default ELSE Get(x)

\* cls.from_xelt(elt, idsearch=..., namesearch=...)
NameSpec_from_xelt(cls, elt, idsearch, namesearch) ==
    Bind(do_int_lookup(elt, OrElse(idsearch, idsearch_of(cls))),
         LAMBDA id : Ok(Identity(cls, id, do_lookup(elt, OrElse(namesearch, namesearch_of(cls))))))

intname(self) == IsSome(self.name) /\ IsIntLiteral(Get(self.name))

NameSpec_str(self) ==
    IF IsSome(self.name) THEN Ok(Get(self.name))
    ELSE IF IsSome(self.id) THEN Ok(PyStr(Get(self.id)))
    ELSE Raise(MissingIdentity)

\* to_xattr with the priority of id and name swapped
to_xattr_id_first(self) ==
    IF IsSome(self.id) THEN Ok(<< S_id, PyStr(Get(self.id)) >>)
    ELSE IF IsSome(self.name) THEN Ok(<< S_name, Get(self.name) >>)
    ELSE Raise(MissingIdentity)

to_xattr(self) ==
    IF IsSome(self.name) THEN Ok(<< S_name, Get(self.name) >>)
    ELSE IF IsSome(self.id) THEN Ok(<< S_id, PyStr(Get(self.id)) >>)
    ELSE Raise(MissingIdentity)

\* etree.Element(tag): the tag has to be an XML name
IsNameStart(c) == ~IsDigit(c) /\ ~IsSpace(c) /\ c \notin {"-", "+", "."}
IsNameChar(c) == ~IsSpace(c) /\ c # "+"
ValidTag(tag) ==
    /\ tag # << >>
    /\ IsNameStart(tag[1])
    /\ \A i \in 1..Len(tag) : IsNameChar(tag[i])
etree_Element(tag, attrib) ==
    IF ValidTag(tag) THEN Ok(Element(tag, attrib, None, << >>)) ELSE Raise(InvalidTagName)

\* E.<tag>() with the attribute of to_xattr set on it
Generic(tag, self) == Bind(to_xattr(self), LAMBDA a : Ok(Element(tag, {a}, None, << >>)))

RoomSpec_to_xelt(self) ==
    IF use_tag_name /\ IsSome(self.name) /\ ~HasBlank(Get(self.name))
    THEN etree_Element(Get(self.name), NoAttrs)
    ELSE Generic(S_room, self)

----------------------------------------------------------------------------
(* ConditionSpec *)

ConditionSpec_from_xelt(elt) ==
    Bind(NameSpec_from_xelt(ItemSpec, elt, None, None), LAMBDA item :
    Bind(NameSpec_from_xelt(StateSpec, elt,
                            Some(<< attr_lookup(S_state), attr_lookup(S_itemstate),
                                    elt_lookup(S_itemstate) >>), None), LAMBDA state :
    Ok([item |-> item, state |-> state])))

ConditionSpec_to_xelt(self) ==
    Bind(NameSpec_str(self.item), LAMBDA item :
    Bind(NameSpec_str(self.state), LAMBDA state :
    etree_Element(S_prereq, {<< S_item, item >>, << S_state, state >>})))

\* [ConditionSpec.from_xelt(x) for x in container]
Conditions_from_xelt(c) == Collect([i \in DOMAIN c |-> ConditionSpec_from_xelt(c[i])])
\* [x.to_xelt() for x in conditions]
Conditions_to_xelt(c) == Collect([i \in DOMAIN c |-> ConditionSpec_to_xelt(c[i])])

----------------------------------------------------------------------------
(* State *)

\* the backfill without its test: the position always replaces the id
Backfill_always(name, index) == [name EXCEPT !.id = index]

\* name.id = index when name.id is None
Backfill(name, index) == IF IsNone(name.id) THEN [name EXCEPT !.id = index] ELSE name

\* bool(x) of a str, kept None for None
PyBool(x) == IF IsSome(x) THEN Some(Get(x) # << >>) ELSE None

\* the container State.from_xelt reads its conditions from
ConditionSource(elt) ==
    IF HasChild(elt, S_prerequisites) /\ HasChild(elt, S_actions) THEN Raise(AmbiguousConditions)
    ELSE IF HasChild(elt, S_prerequisites) THEN Ok(Find(elt, S_prerequisites).children)
    ELSE IF HasChild(elt, S_actions) THEN Ok(Find(elt, S_actions).children)
    ELSE Raise(MissingConditions)

State_from_xelt(elt, index) ==
    Bind(NameSpec_from_xelt(NameSpec, elt, None, None), LAMBDA name :
    Bind(ConditionSource(elt), LAMBDA container :
    Bind(Conditions_from_xelt(container), LAMBDA conditions :
    Ok([name |-> Backfill(name, index),
        image |-> XGet(elt, S_image),
        description |-> FindText(elt, S_description),
        conditions |-> conditions,
        get |-> FindText(elt, S_get),
        gettable |-> PyBool(do_lookup(elt, attr_elt(S_gettable)))]))))

\* the element State.to_xelt starts from
State_tag(self) ==
    IF use_tag_name /\ IsSome(self.name.name) /\ ~HasBlank(Get(self.name.name))
    THEN Raise(NotAString)
    ELSE Generic(S_state, self.name)

\* E.description(text)
E_text(tag, text) == IF IsNone(text) THEN Raise(BadArgument) ELSE Ok(Element(tag, NoAttrs, text, << >>))

\* elts += e for a list elts and an element e: the children of e are added
PlusElement(elts, e) == elts \o e.children

\* kwargs of State.to_xelt put on the attributes of x
State_attrib(self, attrib) ==
    SetAttr(attrib, S_image, IF IsSome(self.image) THEN Get(self.image) ELSE << >>)
        \cup (IF IsSome(self.gettable)
              THEN {<< S_gettable, IF Get(self.gettable) THEN S_True ELSE S_False >>}
              ELSE {})

\* elts of State.to_xelt
State_elts(self, description, conds) ==
    PlusElement(
        IF IsSome(self.get)
        THEN PlusElement(<< description >>, Element(S_get, NoAttrs, self.get, << >>))
        ELSE << description >>,
        Element(S_conditions, NoAttrs, None, conds))

State_to_xelt(self) ==
    Bind(State_tag(self), LAMBDA x :
    Bind(E_text(S_description, self.description), LAMBDA description :
    Bind(Conditions_to_xelt(self.conditions), LAMBDA conds :
    Ok(Element(x.tag, State_attrib(self, x.attrib), None,
               State_elts(self, description, conds))))))

----------------------------------------------------------------------------
(* Item *)

\* [State.from_xelt(x, idx) for idx, x in enumerate(c)]
States_from_xelt(c) == Collect([i \in DOMAIN c |-> State_from_xelt(c[i], Some(i - 1))])

Item_from_xelt(elt, index) ==
    Bind(NameSpec_from_xelt(NameSpec, elt, None, None), LAMBDA name :
    Bind(IterFind(elt, S_states), LAMBDA c :
    Bind(States_from_xelt(c), LAMBDA states :
    Ok([name |-> Backfill(name, index), states |-> states]))))

\* the element Item.to_xelt starts from
Item_tag(self) ==
    IF use_tag_name /\ ~intname(self.name)
    THEN IF IsNone(self.name.name) THEN Raise(NoneNotContainer)
         ELSE IF ~HasBlank(Get(self.name.name)) THEN etree_Element(Get(self.name.name), NoAttrs)
         ELSE Generic(S_item, self.name)
    ELSE Generic(S_item, self.name)

\* E.states(*[x.to_xelt() for x in states])
States_to_xelt(states) ==
    Bind(Collect([i \in DOMAIN states |-> State_to_xelt(states[i])]),
         LAMBDA c : Ok(Element(S_states, NoAttrs, None, c)))

Item_to_xelt(self) ==
    Bind(Item_tag(self), LAMBDA x :
    Bind(States_to_xelt(self.states), LAMBDA states :
    Ok(Element(x.tag, x.attrib, None, << states >>))))

----------------------------------------------------------------------------
(* Room *)

\* [RoomSpec.from_xelt(x) for x in c]
Adjacent_from_xelt(c) == Collect([i \in DOMAIN c |-> NameSpec_from_xelt(RoomSpec, c[i], None, None)])
\* [Item.from_xelt(x, idx) for idx, x in enumerate(c)]
Items_from_xelt(c) == Collect([i \in DOMAIN c |-> Item_from_xelt(c[i], Some(i - 1))])

Room_from_xelt(elt) ==
    Bind(NameSpec_from_xelt(NameSpec, elt, None, None), LAMBDA name :
    Bind(IterFind(elt, S_adjacentrooms), LAMBDA a :
    Bind(Adjacent_from_xelt(a), LAMBDA adjs :
    Bind(IterFind(elt, S_states), LAMBDA s :
    Bind(States_from_xelt(s), LAMBDA states :
    Bind(IterFind(elt, S_items), LAMBDA c :
    Bind(Items_from_xelt(c), LAMBDA items :
    Ok([name |-> name, adjacent_rooms |-> adjs, states |-> states, items |-> items]))))))))

\* the element Room.to_xelt starts from
Room_tag(self) ==
    Bind(NameSpec_str(self.name), LAMBDA name :
    IF use_tag_name /\ ~HasBlank(name) THEN etree_Element(name, NoAttrs)
    ELSE Ok(Element(S_room, {<< S_name, name >>}, None, << >>)))

Room_to_xelt(self) ==
    Bind(Room_tag(self), LAMBDA x :
    Bind(Collect([i \in DOMAIN self.adjacent_rooms |-> RoomSpec_to_xelt(self.adjacent_rooms[i])]),
         LAMBDA adjs :
    Bind(States_to_xelt(self.states), LAMBDA states :
    Bind(Collect([i \in DOMAIN self.items |-> Item_to_xelt(self.items[i])]), LAMBDA items :
    Ok(Element(x.tag, x.attrib, None,
               << Element(S_adjacentrooms, NoAttrs, None, adjs),
                  states,
                  Element(S_items, NoAttrs, None, items) >>))))))

----------------------------------------------------------------------------
(* SpecialResponse *)

\* the item of a special response, given item_index
SpecialResponse_item(elt, item_index) ==
    IF IsSome(item_index) THEN Ok(Identity(ItemSpec, item_index, None))
    ELSE NameSpec_from_xelt(ItemSpec, elt, None, None)

SpecialResponse_from_xelt(elt) ==
    Bind(do_int_lookup(elt, << elt_lookup(S_itemindex) >>), LAMBDA item_index :
    Bind(SpecialResponse_item(elt, item_index), LAMBDA item :
    Bind(NameSpec_from_xelt(StateSpec, elt,
                            Some(<< attr_lookup(S_state), elt_lookup(S_state),
                                    attr_lookup(S_itemstate), elt_lookup(S_itemstate) >>),
                            None), LAMBDA item_state :
    Bind(IterFind(elt, S_actions), LAMBDA c :
    Bind(Conditions_from_xelt(c), LAMBDA actions :
    Ok([item |-> item,
        image |-> do_lookup(elt, attr_elt(S_image)),
        command |-> do_lookup(elt, attr_elt(S_command)),
        response |-> FindText(elt, S_reponse),
        item_state |-> item_state,
        actions |-> actions]))))))

\* a keyword argument of E.specialresponse has to be a str
E_attr(key, value) == IF IsNone(value) THEN Raise(BadAttribute) ELSE Ok(<< key, Get(value) >>)

SpecialResponse_to_xelt(self) ==
    Bind(Conditions_to_xelt(self.actions), LAMBDA actions :
    Bind(NameSpec_str(self.item), LAMBDA item :
    Bind(NameSpec_str(self.item_state), LAMBDA state :
    Bind(E_attr(S_image, self.image), LAMBDA image :
    Bind(E_attr(S_command, self.command), LAMBDA command :
    Ok(Element(S_specialresponse,
               {<< S_item, item >>, << S_state, state >>, image, command},
               None,
               << Element(S_response, NoAttrs, self.response, << >>),
                  Element(S_actions, NoAttrs, None, actions) >>)))))))

----------------------------------------------------------------------------
(* House and minify *)

House_from_xelt(elt) ==
    Bind(IterFind(elt, S_rooms), LAMBDA r :
    Bind(Collect([i \in DOMAIN r |-> Room_from_xelt(r[i])]), LAMBDA rooms :
    Bind(IterFind(elt, S_specialresponses), LAMBDA s :
    Bind(Collect([i \in DOMAIN s |-> SpecialResponse_from_xelt(s[i])]), LAMBDA special_responses :
    Ok([rooms |-> rooms, special_responses |-> special_responses])))))

House_to_xelt(self) ==
    Bind(Collect([i \in DOMAIN self.rooms |-> Room_to_xelt(self.rooms[i])]), LAMBDA rooms :
    Bind(Collect([i \in DOMAIN self.special_responses |->
                     SpecialResponse_to_xelt(self.special_responses[i])]),
         LAMBDA special_responses :
    Ok(Element(S_house, NoAttrs, None,
               << Element(S_rooms, NoAttrs, None, rooms),
                  Element(S_specialresponses, NoAttrs, None, special_responses) >>))))

\* the text of x after etree.tostring(xml, pretty_print=True) and
\* etree.fromstring: an element that has children and no text gets the
\* indentation as its text, and an empty text is no text
ReparsedText(x) ==
    IF x.children # << >> /\ (IsNone(x.text) \/ x.text = Some(<< >>)) THEN Some(<< "\n" >>)
    ELSE IF x.text = Some(<< >>) THEN None
    ELSE x.text

RECURSIVE Reparse(_)
Reparse(x) ==
    Element(x.tag, x.attrib, ReparsedText(x), [i \in DOMAIN x.children |-> Reparse(x.children[i])])

\* house = House.from_xelt(etree.fromstring(instr)); xml = house.to_xelt()
minify(elt) == Bind(House_from_xelt(elt), LAMBDA house : House_to_xelt(house))

----------------------------------------------------------------------------
(* the documents the operations are run on *)

MaxConds == 2
MaxStates == 2
MaxItems == 2
MaxAdjacent == 1
MaxRooms == 2

SeqsUpTo(S, n) == UNION {[1..k -> S] : k \in 0..n}

Leaf(tag, text) == Element(tag, NoAttrs, Some(text), << >>)
Empty(tag) == Element(tag, NoAttrs, None, << >>)
Container(tag, children) == Element(tag, NoAttrs, None, children)

\* a part of an element: some attributes and some children
Part(attrib, children) == [attrib |-> attrib, children |-> children]
NoPart == Part(NoAttrs, << >>)
Join(p, q) == Part(p.attrib \cup q.attrib, p.children \o q.children)
Build(tag, text, p) == Element(tag, p.attrib, text, p.children)

N_key == <<"k", "e", "y">>
N_lamp == <<"l", "a", "m", "p">>
N_12 == <<"1", "2">>
N_blank == <<"a", " ", "b">>
N_tab == <<"a", "\t", "b">>
N_7 == <<"7">>
N_abc == <<"a", "b", "c">>
N_sp3 == <<" ", "3">>
N_neg4 == <<"-", "4">>

\* how an entity may carry its name and its id
NameParts ==
    {NoPart, Part(Attr(S_name, N_key), << >>), Part(Attr(S_name, N_12), << >>),
     Part(Attr(S_name, N_blank), << >>), Part(NoAttrs, << Leaf(S_name, N_tab) >>),
     Part(NoAttrs, << Leaf(S_name, N_lamp) >>)}
IdParts ==
    {NoPart, Part(Attr(S_id, N_12), << >>), Part(NoAttrs, << Leaf(S_id, N_abc) >>),
     Part(Attr(S_index, N_sp3), << >>), Part(Attr(S_id, N_neg4), << Leaf(S_index, N_7) >>)}

\* the nodes the lookup chains are run on, and the chains
ProbeTexts == {None, Some(N_abc), Some(N_12), Some(N_neg4)}
ProbeElts ==
    {Element(S_item,
             (IF IsSome(a) THEN Attr(S_id, Get(a)) ELSE NoAttrs)
                 \cup (IF IsSome(b) THEN Attr(S_index, Get(b)) ELSE NoAttrs),
             t,
             IF IsSome(c) THEN << Leaf(S_id, Get(c)) >> ELSE << >>) :
        a \in ProbeTexts, b \in ProbeTexts, c \in ProbeTexts, t \in ProbeTexts}
Chains ==
    {idsearch_of(NameSpec), idsearch_of(RoomSpec),
     << attr_lookup(S_id), elt_lookup(S_id), attr_lookup(S_index) >>,
     << self_lookup, attr_lookup(S_index), attr_lookup(S_id) >>,
     << elt_lookup(S_index) >>}

\* condition nodes
CondElts ==
    {Element(S_prereq, Attr(S_item, <<"1">>) \cup Attr(S_state, <<"2">>), None, << >>),
     Element(S_prereq, Attr(S_item, N_key) \cup Attr(S_state, <<"2">>), None, << >>),
     Element(S_prereq, Attr(S_item, <<"0">>), None, << Leaf(S_itemstate, N_7), Leaf(S_state, N_key) >>),
     Element(S_prereq, NoAttrs, None, << Leaf(S_item, N_sp3) >>)}

\* what a state node has besides its identity
CondParts ==
    {NoPart, Part(NoAttrs, << Empty(S_prerequisites), Empty(S_actions) >>)}
    \cup {Part(NoAttrs, << Container(t, c) >>) :
             t \in {S_prerequisites, S_actions}, c \in SeqsUpTo(CondElts, MaxConds)}
DescParts ==
    {NoPart, Part(Attr(S_image, N_key) \cup Attr(S_gettable, S_False),
                  << Leaf(S_description, N_blank), Leaf(S_get, N_key) >>)}

StateElts ==
    {Build(S_state, None, Join(Join(n, i), Join(d, c))) :
        n \in NameParts, i \in IdParts, d \in DescParts, c \in CondParts}

\* the states nested in items and rooms
SomeStates ==
    {Build(S_state, None, Part(Attr(S_name, N_key) \cup Attr(S_id, N_7),
                               << Leaf(S_description, N_blank), Empty(S_actions) >>)),
     Build(S_state, None, Part(NoAttrs,
                               << Leaf(S_description, N_key),
                                  Container(S_prerequisites,
                                      << Element(S_prereq,
                                                 Attr(S_item, <<"1">>) \cup Attr(S_state, <<"2">>),
                                                 None, << >>) >>) >>)),
     Build(N_lamp, None, Part(Attr(S_name, N_blank), << Leaf(S_description, N_key), Empty(S_actions) >>))}

ItemElts ==
    {Build(S_item, None, Join(Join(n, i), Part(NoAttrs, << Container(S_states, s) >>))) :
        n \in NameParts, i \in IdParts, s \in SeqsUpTo(SomeStates, MaxStates)}

\* the items nested in rooms
SomeItems ==
    {Build(S_item, None, Part(Attr(S_name, N_key), << Empty(S_states) >>)),
     Build(S_item, None, Part(Attr(S_name, N_lamp) \cup Attr(S_id, N_7),
                              << Leaf(S_index, N_12), Empty(S_states) >>)),
     Build(N_key, None, Part(NoAttrs,
         << Container(S_states, << CHOOSE s \in SomeStates : s.tag = N_lamp,
                                   CHOOSE s \in SomeStates : HasAttr(s, S_id) >>) >>))}

\* room references
AdjElts ==
    {Leaf(S_room, <<"2">>), Leaf(S_room, N_key), Empty(S_room),
     Element(S_room, Attr(S_room, N_key), Some(N_sp3), << >>)}

RoomParts ==
    {Part(NoAttrs, << Container(S_adjacentrooms, a), Container(S_states, s), Container(S_items, i) >>) :
        a \in SeqsUpTo(AdjElts, MaxAdjacent),
        s \in SeqsUpTo(SomeStates, 1),
        i \in SeqsUpTo(SomeItems, MaxItems)}
RoomElts ==
    {Build(S_room, None, Join(Join(n, i), r)) :
        n \in NameParts, i \in {NoPart, Part(Attr(S_id, N_7), << >>)}, r \in RoomParts}

SpecialElts ==
    {Build(S_specialresponse, None, Join(Join(x, i), Join(Join(n, st), Join(im, a)))) :
        x \in {NoPart, Part(NoAttrs, << Leaf(S_itemindex, <<"5">>) >>),
               Part(NoAttrs, << Leaf(S_itemindex, N_abc) >>),
               Part(NoAttrs, << Empty(S_itemindex) >>)},
        i \in {NoPart, Part(Attr(S_item, <<"3">>), << >>), Part(Attr(S_item, N_key), << >>)},
        n \in {NoPart, Part(Attr(S_name, N_lamp) \cup Attr(S_id, N_7), << >>)},
        st \in {NoPart, Part(Attr(S_state, <<"2">>), << >>)},
        im \in {NoPart, Part(Attr(S_image, N_key) \cup Attr(S_command, N_lamp),
                             << Leaf(S_reponse, N_blank) >>)},
        a \in {NoPart} \cup {Part(NoAttrs, << Container(S_actions, c) >>) :
                               c \in SeqsUpTo(CondElts, 1)}}

\* the rooms and special responses of whole documents
NamedState == Build(S_state, None, Part(Attr(S_name, N_lamp), << Leaf(S_description, N_key), Empty(S_actions) >>))
SomeRooms ==
    {Build(S_room, None, Part(Attr(S_name, N_key),
        << Empty(S_adjacentrooms), Empty(S_states), Empty(S_items) >>)),
     Build(S_room, None, Part(Attr(S_name, N_lamp) \cup Attr(S_id, N_7),
        << Container(S_adjacentrooms, << Leaf(S_room, <<"2">>) >>), Empty(S_states),
           Container(S_items, << Build(S_item, None, Part(Attr(S_name, N_key), << Empty(S_states) >>)) >>) >>)),
     Build(S_room, None, Part(Attr(S_name, N_key),
        << Empty(S_adjacentrooms), Container(S_states, << NamedState >>), Empty(S_items) >>)),
     Build(S_room, None, Part(Attr(S_name, N_lamp),
        << Empty(S_adjacentrooms), Empty(S_states),
           Container(S_items, << Build(S_item, None, Part(Attr(S_name, N_key) \cup Attr(S_id, N_7),
                                                         << Empty(S_states) >>)) >>) >>)),
     Build(S_room, None, Part(Attr(S_name, N_blank),
        << Empty(S_adjacentrooms), Empty(S_states),
           Container(S_items, << Build(S_item, None, Part(NoAttrs, << Empty(S_states) >>)) >>) >>))}
SomeSpecials ==
    {Element(S_specialresponse,
             Attr(S_item, <<"3">>) \cup Attr(S_state, <<"2">>) \cup Attr(S_image, N_key)
                 \cup Attr(S_command, N_lamp),
             None, << Leaf(S_reponse, N_blank), Empty(S_actions) >>),
     Element(S_specialresponse, Attr(S_item, <<"3">>) \cup Attr(S_state, <<"2">>),
             None, << Empty(S_actions) >>)}
HouseElts ==
    {Container(S_house, << Container(S_rooms, r), Container(S_specialresponses, sr) >>) :
        r \in SeqsUpTo(SomeRooms, MaxRooms), sr \in SeqsUpTo(SomeSpecials, 1)}

Indexes == {None, Some(0), Some(1)}

----------------------------------------------------------------------------
(* the operations, each run on a document and then on its own result *)

Unset == Raise("unset")

Inputs(k) ==
    CASE k = "lookup" -> {[elt |-> e, lookups |-> l] : e \in ProbeElts, l \in Chains}
      [] k = "namespec" -> {[elt |-> Build(S_item, None, Join(n, i)), index |-> x] :
                              n \in NameParts, i \in IdParts, x \in Indexes}
      [] k = "adjacent" -> {[elt |-> e] : e \in AdjElts}
      [] k = "state" -> {[elt |-> e, index |-> x] : e \in StateElts, x \in Indexes}
      [] k = "item" -> {[elt |-> e, index |-> x] : e \in ItemElts, x \in Indexes}
      [] k = "room" -> {[elt |-> e] : e \in RoomElts}
      [] k = "special" -> {[elt |-> e] : e \in SpecialElts}
      [] k = "house" -> {[elt |-> e] : e \in HouseElts}

Kinds == {"lookup", "namespec", "adjacent", "state", "item", "room", "special", "house"}

Init ==
    /\ use_tag_name \in BOOLEAN
    /\ kind \in Kinds
    /\ src \in Inputs(kind)
    /\ pc = "parsed"
    /\ dec = Unset
    /\ enc = Unset
    /\ redec = Unset

Decoded(r) ==
    /\ pc = "parsed"
    /\ dec' = r
    /\ pc' = "decoded"
    /\ UNCHANGED << use_tag_name, kind, src, enc, redec >>

Encoded(r) ==
    /\ pc = "decoded"
    /\ dec.ok
    /\ enc' = r
    /\ pc' = "encoded"
    /\ UNCHANGED << use_tag_name, kind, src, dec, redec >>

Redecoded(r) ==
    /\ pc = "encoded"
    /\ enc.ok
    /\ redec' = r
    /\ pc' = "redecoded"
    /\ UNCHANGED << use_tag_name, kind, src, dec, enc >>

DoIntLookup == kind = "lookup" /\ Decoded(do_int_lookup(src.elt, src.lookups))

\* an identity as State.from_xelt and Item.from_xelt resolve it
NameSpecFromXelt ==
    /\ kind = "namespec"
    /\ LET name == NameSpec_from_xelt(NameSpec, src.elt, None, None)
       IN  Decoded(IF name.ok THEN Ok(Backfill(name.val, src.index)) ELSE name)

NameSpecRender ==
    kind = "namespec" /\ Encoded(Ok([str |-> NameSpec_str(dec.val), xattr |-> to_xattr(dec.val)]))

RoomSpecFromXelt == kind = "adjacent" /\ Decoded(NameSpec_from_xelt(RoomSpec, src.elt, None, None))
RoomSpecToXelt == kind = "adjacent" /\ Encoded(RoomSpec_to_xelt(dec.val))

StateFromXelt == kind = "state" /\ Decoded(State_from_xelt(src.elt, src.index))
StateToXelt == kind = "state" /\ Encoded(State_to_xelt(dec.val))
StateFromOutput == kind = "state" /\ Redecoded(State_from_xelt(enc.val, src.index))

ItemFromXelt == kind = "item" /\ Decoded(Item_from_xelt(src.elt, src.index))
ItemToXelt == kind = "item" /\ Encoded(Item_to_xelt(dec.val))

RoomFromXelt == kind = "room" /\ Decoded(Room_from_xelt(src.elt))
RoomToXelt == kind = "room" /\ Encoded(Room_to_xelt(dec.val))

SpecialResponseFromXelt == kind = "special" /\ Decoded(SpecialResponse_from_xelt(src.elt))
SpecialResponseToXelt == kind = "special" /\ Encoded(SpecialResponse_to_xelt(dec.val))

HouseFromXelt == kind = "house" /\ Decoded(House_from_xelt(src.elt))
HouseToXelt == kind = "house" /\ Encoded(House_to_xelt(dec.val))
\* minify on the document: the house it decodes and the output, or the error
Minify ==
    /\ kind = "house"
    /\ pc = "parsed"
    /\ dec' = House_from_xelt(src.elt)
    /\ enc' = minify(src.elt)
    /\ pc' = "encoded"
    /\ UNCHANGED << use_tag_name, kind, src, redec >>
HouseFromOutput == kind = "house" /\ Redecoded(House_from_xelt(Reparse(enc.val)))

Next ==
    \/ DoIntLookup
    \/ NameSpecFromXelt
    \/ NameSpecRender
    \/ RoomSpecFromXelt
    \/ RoomSpecToXelt
    \/ StateFromXelt
    \/ StateToXelt
    \/ StateFromOutput
    \/ ItemFromXelt
    \/ ItemToXelt
    \/ RoomFromXelt
    \/ RoomToXelt
    \/ SpecialResponseFromXelt
    \/ SpecialResponseToXelt
    \/ HouseFromXelt
    \/ HouseToXelt
    \/ Minify
    \/ HouseFromOutput

Spec == Init /\ [][Next]_vars

----------------------------------------------------------------------------
(* what the claims speak of *)

HasWhitespace(s) == \E i \in 1..Len(s) : IsSpace(s[i])
HasIdentity(name) == IsSome(name.id) \/ IsSome(name.name)
Pair(name) == << name.id, name.name >>

\* the first candidate that is an integer literal, as an optional integer
RECURSIVE FirstParsed(_)
FirstParsed(cands) ==
    IF cands = << >> THEN None
    ELSE IF IsSome(Head(cands)) /\ IsIntLiteral(Get(Head(cands))) THEN Some(IntValue(Get(Head(cands))))
    ELSE FirstParsed(Tail(cands))

\* the first candidate that is present
RECURSIVE FirstPresent(_)
FirstPresent(cands) ==
    IF cands = << >> THEN None
    ELSE IF IsSome(Head(cands)) THEN Head(cands)
    ELSE FirstPresent(Tail(cands))

\* C4: the integer resolver returns the integer of the first candidate, in
\* strategy order, that parses as an integer, skips absent and non-integer
\* candidates alike, returns None when none parses and raises nothing.
C4_IntegerChainSkipsUnparsable ==
    (kind = "lookup" /\ pc = "decoded") =>
        dec = Ok(FirstParsed(Candidates(src.elt, src.lookups)))

\* a decimal rendering of the integer n: digits, after a "-" when n < 0
IsDecimalOf(v, n) ==
    /\ IsIntLiteral(v)
    /\ IntValue(v) = n
    /\ \A i \in 1..Len(v) : IsDigit(v[i]) \/ (i = 1 /\ v[i] = "-" /\ n < 0)
    /\ (Len(v) > 1 => v[1] # "0")

\* C5: __str__ returns name if set, else str(id) if set, else raises the
\* missing-identity error; to_xattr returns ("name", name), else
\* ("id", str(id)), else raises the same; the value of to_xattr is the result
\* of __str__ and one raises exactly when the other does.
C5_RenderingAgrees ==
    (kind = "namespec" /\ pc = "encoded") =>
        LET self == dec.val
            str == enc.val.str
            xattr == enc.val.xattr
        IN  /\ IsSome(self.name) =>
                str = Ok(Get(self.name)) /\ xattr = Ok(<< S_name, Get(self.name) >>)
            /\ (IsNone(self.name) /\ IsSome(self.id)) =>
                /\ str.ok /\ IsDecimalOf(str.val, Get(self.id))
                /\ xattr.ok /\ xattr.val[1] = S_id /\ IsDecimalOf(xattr.val[2], Get(self.id))
            /\ (IsNone(self.name) /\ IsNone(self.id)) =>
                str = Raise(MissingIdentity) /\ xattr = Raise(MissingIdentity)
            /\ str.ok = xattr.ok
            /\ str.ok => xattr.val[2] = str.val

\* C5 witness: an identity with an id and no name has been rendered
C5_Witness ==
    /\ kind = "namespec" /\ pc = "encoded"
    /\ IsNone(dec.val.name) /\ dec.val.id = Some(12)
    /\ enc.val.str = Ok(N_12)

\* the id the claim gives the entity decoded from node at position pos
ExpectedId(node, pos) ==
    LET explicit == FirstPresent(Candidates(node, idsearch_of(NameSpec)))
    IN  IF IsSome(explicit) THEN Some(IntValue(Get(explicit))) ELSE Some(pos)

IdsAsExpected(nodes, entities) ==
    /\ Len(nodes) = Len(entities)
    /\ \A i \in DOMAIN entities :
         /\ IsSome(entities[i].name.id)
         /\ entities[i].name.id = ExpectedId(nodes[i], i - 1)

\* C10: after a successful Room decode every state of the room, every item
\* and every state of every item has an id: the one resolved from the node's
\* id or index attribute or child when one is present, and otherwise the
\* 0-based position of the node in its container.
C10_PositionalBackfill ==
    (kind = "room" /\ pc # "parsed" /\ dec.ok) =>
        LET states == Find(src.elt, S_states).children
            items == Find(src.elt, S_items).children
        IN  /\ IdsAsExpected(states, dec.val.states)
            /\ IdsAsExpected(items, dec.val.items)
            /\ \A i \in DOMAIN items :
                 IdsAsExpected(Find(items[i], S_states).children, dec.val.items[i].states)

\* C10 witness: a room whose first item has an explicit id and whose second
\* item has none, and has a state without and a state with an explicit id
C10_Witness ==
    /\ kind = "room" /\ pc = "decoded" /\ dec.ok
    /\ Len(dec.val.items) = 2
    /\ dec.val.items[1].name.id = Some(7)
    /\ dec.val.items[2].name.id = Some(1)
    /\ Len(dec.val.items[2].states) = 2
    /\ dec.val.items[2].states[1].name.id = Some(0)
    /\ dec.val.items[2].states[2].name.id = Some(7)

\* the (item, state) identities of a list of conditions
CondPairs(conditions) ==
    [i \in DOMAIN conditions |-> << Pair(conditions[i].item), Pair(conditions[i].state) >>]

\* C6: a State node with both a prerequisites and an actions container fails
\* with the ambiguous-conditions error, one with neither fails with the
\* missing-conditions error, and one with exactly one of them decodes, with one
\* condition per child of that container. Stated for the nodes whose own
\* identity resolves: from_xelt resolves it before it looks at the containers.
C6_ConditionSource ==
    (kind = "state" /\ pc = "decoded" /\ NameSpec_from_xelt(NameSpec, src.elt, None, None).ok) =>
        LET prereqs == HasChild(src.elt, S_prerequisites)
            actions == HasChild(src.elt, S_actions)
            container == IF prereqs THEN Find(src.elt, S_prerequisites) ELSE Find(src.elt, S_actions)
        IN  /\ (prereqs /\ actions) => dec = Raise(AmbiguousConditions)
            /\ (~prereqs /\ ~actions) => dec = Raise(MissingConditions)
            /\ (prereqs # actions) =>
                 dec.ok /\ Len(dec.val.conditions) = Len(container.children)

\* C7: the element State.to_xelt returns has its conditions in a child tagged
\* prerequisites or actions, and decoding it gives the conditions of the state
\* that was encoded.
C7_StateEncodeInvertsDecode ==
    /\ (kind = "state" /\ pc = "encoded" /\ enc.ok) =>
           HasChild(enc.val, S_prerequisites) \/ HasChild(enc.val, S_actions)
    /\ (kind = "state" /\ pc = "redecoded") =>
           /\ redec # Raise(MissingConditions)
           /\ redec.ok
           /\ CondPairs(redec.val.conditions) = CondPairs(dec.val.conditions)

\* C8: decoding a room reference of an adjacentrooms container never fails and
\* never sets name; the id is the integer its text parses to, and None when the
\* text is not an integer.
C8_AdjacencyProfile ==
    (kind = "adjacent" /\ pc = "decoded") =>
        /\ dec.ok
        /\ IsNone(dec.val.name)
        /\ dec.val.id = FirstParsed(<< src.elt.text >>)

\* elt without its children tagged name
Without(elt, name) ==
    Element(elt.tag, elt.attrib, elt.text,
            SelectSeq(elt.children, LAMBDA c : c.tag # name))

\* C9: a special response whose itemindex child parses as n has the item
\* (id = n, name = None); otherwise the itemindex child makes no decode fail,
\* and the item is the default-profile identity of the node: name from the
\* attribute or child "name", id from the attributes and children "id" and
\* "index".
C9_SpecialResponseItem ==
    (kind = "special" /\ pc = "decoded") =>
        LET index == FirstParsed(<< FindText(src.elt, S_itemindex) >>)
        IN  IF IsSome(index)
            THEN dec.ok => Pair(dec.val.item) = << index, None >>
            ELSE /\ dec.ok = SpecialResponse_from_xelt(Without(src.elt, S_itemindex)).ok
                 /\ dec.ok =>
                      /\ dec.val.item.name = do_lookup(src.elt, namesearch_of(NameSpec))
                      /\ dec.val.item.id
                            = FirstParsed(Candidates(src.elt, idsearch_of(NameSpec)))

\* the identity of a decoded entity of the kind under run
Self == dec.val.name
GenericTag == CASE kind = "state" -> S_state [] kind = "item" -> S_item [] kind = "room" -> S_room

\* an encoded entity with an identity and nothing nested in it: what is nested
\* is encoded by its own to_xelt, and a State needs its description
Simple ==
    /\ kind \in {"state", "item", "room"}
    /\ pc = "encoded"
    /\ HasIdentity(Self)
    /\ kind = "state" => IsSome(dec.val.description) /\ dec.val.conditions = << >>
    /\ kind = "item" => dec.val.states = << >>
    /\ kind = "room" =>
         dec.val.adjacent_rooms = << >> /\ dec.val.states = << >> /\ dec.val.items = << >>

\* the condition of the custom-tag shape
CustomTag ==
    /\ use_tag_name
    /\ IsSome(Self.name)
    /\ ~IsIntLiteral(Get(Self.name))
    /\ ~HasWhitespace(Get(Self.name))

\* the attribute of the generic shape
IdentityAttr == IF IsSome(Self.name) THEN << S_name, Get(Self.name) >> ELSE << S_id, PyStr(Get(Self.id)) >>

\* C2: encoding an Item, a State or a Room gives an element that has the name
\* as its tag exactly when use_tag_name is set and the name is set, is not an
\* integer and has no whitespace; otherwise the element has the generic tag of
\* its kind and, as its identity, the one attribute to_xattr returns.
C2_TagSelection ==
    Simple =>
        /\ enc.ok
        /\ CustomTag => enc.val.tag = Get(Self.name)
        /\ ~CustomTag =>
             /\ enc.val.tag = GenericTag
             /\ IdentityAttr \in enc.val.attrib
             /\ \A a \in enc.val.attrib : a[1] \in {S_name, S_id} => a = IdentityAttr

\* C3: encoding an Item, a State or a Room that has an id or a name raises
\* nothing, whatever use_tag_name is, also when the name is None, numeric or
\* has whitespace.
C3_Representable == Simple => enc.ok

\* the identities of the rooms, items and states of a house
StateIds(states) == [i \in DOMAIN states |-> Pair(states[i].name)]
ItemIds(items) == [i \in DOMAIN items |-> << Pair(items[i].name), StateIds(items[i].states) >>]
RoomIds(rooms) ==
    [i \in DOMAIN rooms |->
        << Pair(rooms[i].name), StateIds(rooms[i].states), ItemIds(rooms[i].items) >>]

\* a name the round trip is claimed for
PlainName(name) ==
    IsSome(name.name) /\ ~IsIntLiteral(Get(name.name)) /\ ~HasWhitespace(Get(name.name))
PlainStates(states) == \A i \in DOMAIN states : PlainName(states[i].name)
PlainItems(items) ==
    \A i \in DOMAIN items : PlainName(items[i].name) /\ PlainStates(items[i].states)
PlainHouse(house) ==
    /\ \A i \in DOMAIN house.rooms :
         /\ PlainName(house.rooms[i].name)
         /\ PlainStates(house.rooms[i].states)
         /\ PlainItems(house.rooms[i].items)
    /\ \A i \in DOMAIN house.special_responses :
         IsSome(house.special_responses[i].image) /\ IsSome(house.special_responses[i].command)

\* C1: for a document whose rooms, items and states all have a name that is
\* not an integer and has no whitespace (and whose special responses have the
\* image and command their encoding needs), the output of minify decodes, to
\* the same (id, name) for every room, item and state, for both values of
\* use_tag_name.
C1_RoundTrip ==
    (kind = "house" /\ dec.ok /\ PlainHouse(dec.val)) =>
        /\ pc = "encoded" => enc.ok
        /\ pc = "redecoded" => redec.ok /\ RoomIds(redec.val.rooms) = RoomIds(dec.val.rooms)

====
